---------------------------- MODULE Spec2Model ----------------------------
(***************************************************************************)
(* Model of the persona-driven document analyser (app.py) and of the       *)
(* layout heading extractor (main.py).                                     *)
(*                                                                         *)
(* Text is a sequence of one-character strings, so that searching,         *)
(* slicing, splitting and case tests are computed character by character   *)
(* the way the Python string methods compute them.  Four state machines    *)
(* share the module:                                                       *)
(*   Spec         process_documents (app.py), run twice over one set of    *)
(*                documents so that two list orders can be compared        *)
(*   SpecWindow   the content window of one section (app.py 171-180)       *)
(*   SpecParse    parse_input_format (app.py 238-275)                      *)
(*   SpecHeadings extract_headings_from_pdf (main.py 43-72)                *)
(***************************************************************************)
EXTENDS Integers, Sequences, FiniteSets, TLC

(***************************************************************************)
(* Python string primitives                                                *)
(***************************************************************************)
UpperChars == <<"A","B","C","D","E","F","G","H","I","J","K","L","M","N","O","P","Q","R","S","T","U","V","W","X","Y","Z">>
LowerChars == <<"a","b","c","d","e","f","g","h","i","j","k","l","m","n","o","p","q","r","s","t","u","v","w","x","y","z">>
Range(s) == {s[i] : i \in 1..Len(s)}
Min(S) == CHOOSE x \in S : \A y \in S : x <= y
Max(S) == CHOOSE x \in S : \A y \in S : x >= y

\* str.isspace() of one character; the texts use blank and newline
IsSpace(c) == c \in {" ", "\n", "\t"}
UpperSet == Range(UpperChars)
LowerSet == Range(LowerChars)
IsUpperChar(c) == c \in UpperSet
IsLowerChar(c) == c \in LowerSet
IsCased(c) == IsUpperChar(c) \/ IsLowerChar(c)
\* str.isprintable() of one character: control characters are not printable
IsPrintableChar(c) == c \notin {"\n", "\t"}

\* a sequence given as a function of 1..n, as the tuple it is
AsSeq(f) == SubSeq(f, 1, Len(f))

LowerMap ==
  [c \in UpperSet |->
     LowerChars[CHOOSE i \in 1..Len(UpperChars) : UpperChars[i] = c]]
LowerOfChar(c) == IF IsUpperChar(c) THEN LowerMap[c] ELSE c
\* str.lower()
lower(s) == AsSeq([i \in 1..Len(s) |-> LowerOfChar(s[i])])

\* Python slice s[a:b] for 0 <= a, with b clipped to len(s)
Slice(s, a, b) ==
  LET hi == IF b < Len(s) THEN b ELSE Len(s)
  IN  IF a >= hi THEN << >> ELSE SubSeq(s, a + 1, hi)

\* whether sub occurs in s at 0-based offset o
OccursAt(s, sub, o) ==
  /\ o >= 0
  /\ o + Len(sub) <= Len(s)
  /\ \A j \in 1..Len(sub) : s[o + j] = sub[j]
Occurrences(s, sub) ==
  IF sub = << >> THEN 0..Len(s)
  ELSE {o \in 0..(Len(s) - Len(sub)) : s[o + 1] = sub[1] /\ OccursAt(s, sub, o)}

\* str.find(sub): lowest offset of an occurrence, -1 when there is none
find(s, sub) ==
  LET occ == Occurrences(s, sub)
  IN  IF occ = {} THEN -1 ELSE Min(occ)

\* sub in s
Contains(s, sub) == Occurrences(s, sub) # {}

\* the non-overlapping occurrences str.count and str.split use: scanned left
\* to right, each match resuming after its end
RECURSIVE GreedyFrom(_, _, _)
GreedyFrom(occ, m, from) ==
  LET rest == {o \in occ : o >= from}
  IN  IF rest = {} THEN << >>
      ELSE LET o == Min(rest) IN <<o>> \o GreedyFrom(occ, m, o + m)
GreedyOccurrences(s, sub) == GreedyFrom(Occurrences(s, sub), Len(sub), 0)

\* str.count(sub) for a non-empty sub
count(s, sub) == Len(GreedyOccurrences(s, sub))

\* str.split(sep) for a non-empty sep: the pieces between the separators,
\* empty pieces kept
split_sep(s, sep) ==
  LET g == GreedyOccurrences(s, sep)
      n == Len(g)
      startOf(k) == IF k = 1 THEN 0 ELSE g[k - 1] + Len(sep)
      endOf(k) == IF k = n + 1 THEN Len(s) ELSE g[k]
  IN  AsSeq([k \in 1..(n + 1) |-> Slice(s, startOf(k), endOf(k))])

\* str.strip(): leading and trailing whitespace removed
strip(s) ==
  LET keep == {i \in 1..Len(s) : ~IsSpace(s[i])}
  IN  IF keep = {} THEN << >> ELSE Slice(s, Min(keep) - 1, Max(keep))

\* str.split() without argument: the maximal runs of non-whitespace
WordStarts(s) ==
  {i \in 1..Len(s) : ~IsSpace(s[i]) /\ (i = 1 \/ IsSpace(s[i - 1]))}
WordEnd(s, i) ==
  Min({j \in i..Len(s) : j = Len(s) \/ IsSpace(s[j + 1])})
RECURSIVE SortedSeq(_)
SortedSeq(S) ==
  IF S = {} THEN << >> ELSE LET m == Min(S) IN <<m>> \o SortedSeq(S \ {m})
split_ws(s) ==
  LET st == SortedSeq(WordStarts(s))
  IN  AsSeq([k \in 1..Len(st) |-> Slice(s, st[k] - 1, WordEnd(s, st[k]))])
\* len(s.split())
word_count(s) == Cardinality(WordStarts(s))

\* str.isupper(): some cased character and no lowercase one
isupper(s) ==
  /\ \E i \in 1..Len(s) : IsCased(s[i])
  /\ \A i \in 1..Len(s) : ~IsLowerChar(s[i])
\* str.istitle(): uppercase only after an uncased character, lowercase only
\* after a cased one, and some cased character
istitle(s) ==
  /\ \E i \in 1..Len(s) : IsCased(s[i])
  /\ \A i \in 1..Len(s) :
       /\ IsUpperChar(s[i]) => (i = 1 \/ ~IsCased(s[i - 1]))
       /\ IsLowerChar(s[i]) => (i > 1 /\ IsCased(s[i - 1]))
\* str.isprintable(): every character printable (true of the empty string)
isprintable(s) == \A i \in 1..Len(s) : IsPrintableChar(s[i])
\* str.endswith(suffix)
endswith(s, suffix) == OccursAt(s, suffix, Len(s) - Len(suffix))

\* n copies of the character c
Rep(c, n) == AsSeq([i \in 1..n |-> c])

\* n copies of the text t
RECURSIVE RepText(_, _)
RepText(t, n) == IF n = 0 THEN << >> ELSE t \o RepText(t, n - 1)

(***************************************************************************)
(* JSON values, as json.load returns them: a string, a number, an object   *)
(* (a function of its keys; a key it lacks is outside its domain), a list  *)
(***************************************************************************)
JStr(s) == [type |-> "str", str |-> s]
JInt(n) == [type |-> "num", num |-> n]
JNum == JInt(7)
JObj(f) == [type |-> "obj", obj |-> f]
JList(q) == [type |-> "list", items |-> q]
\* isinstance(v, dict) and k in v
HasKey(v, k) == v.type = "obj" /\ k \in DOMAIN v.obj

VARIABLES
  \* extract_headings_from_pdf (main.py)
  hdoc,        \* the PDF being read: its pages, each a sequence of spans
  hpc,         \* "title" (first loop), "score" (second loop), "done"
  hpage,       \* page of the loop position, 1-based
  hspan,       \* span of the loop position within the page, 1-based
  max_font,    \* main.py 46
  title,       \* main.py 47
  headings,    \* main.py 45
  hlast,       \* the span the last step scored, with its score and level
  hout         \* the returned {title, outline}

hvars == <<hdoc, hpc, hpage, hspan, max_font, title, headings, hlast, hout>>

VARIABLES
  \* the content window of one section (app.py 169-180)
  wpage,       \* page_content: the raw text of the section's page
  wtitle,      \* section['title']
  wpc,         \* "start", "done"
  wcontent     \* section_content

wvars == <<wpage, wtitle, wpc, wcontent>>

VARIABLES
  \* parse_input_format (app.py 238-275)
  raw,         \* input_data: the loaded JSON configuration
  ppc,         \* "documents", "persona", "job", "return", "done", "raised"
  p_documents, \* documents (app.py 241)
  p_persona,   \* persona (app.py 252)
  p_job,       \* job_to_be_done (app.py 262)
  p_error      \* the exception that left the function, "" when none did

pvars == <<raw, ppc, p_documents, p_persona, p_job, p_error>>

VARIABLES
  \* process_documents (app.py 137-231)
  documents,            \* input_data['documents']: the list of paths
  persona,              \* input_data['persona']
  job_to_be_done,       \* input_data['job_to_be_done']
  pc,                   \* "start", "loop", "done", "raised"
  run,                  \* 1 for the first run, 2 for the run in another order
  persona_type,         \* app.py 143
  job_keywords,         \* app.py 144
  doc_idx,              \* position of the for loop of app.py 149, 1-based
  sections,             \* app.py 166: the sections of the last document read
  sections_of,          \* history: the path of that document
  scored,               \* history: every section scored at app.py 182
  all_sections,         \* app.py 146
  extracted_sections,   \* app.py 199
  subsection_analysis,  \* app.py 200
  input_document_names, \* app.py 220
  error,                \* the exception that left process_documents, or ""
  first_run             \* the outcome of the first run, once it is over

dvars ==
  <<documents, persona, job_to_be_done, pc, run, persona_type, job_keywords,
    doc_idx, sections, sections_of, scored, all_sections, extracted_sections,
    subsection_analysis, input_document_names, error, first_run>>

vars == <<hvars, wvars, pvars, dvars>>
\* what each machine leaves alone: the variables of the other three
NotH == <<wvars, pvars, dvars>>
NotW == <<hvars, pvars, dvars>>
NotP == <<hvars, wvars, dvars>>
NotD == <<hvars, wvars, pvars>>

(***************************************************************************)
(* main.py: the layout heading extractor                                   *)
(***************************************************************************)
\* the bounds of the heading model: the spans of one PDF
MaxSpans == 2

\* flags & bit for a style bitmask, bit a power of two
BitSet(flags, bit) == (flags \div bit) % 2 = 1

\* faulty variant of get_span_score: the lowest font-size tier starts at 50%
\* of the largest font
get_span_score_half_tier(span, maxfont, page_width) ==
  LET text == strip(span.text)
      tier == IF 100 * span.size >= 95 * maxfont THEN 3
              ELSE IF 100 * span.size >= 75 * maxfont THEN 2
              ELSE IF 100 * span.size >= 50 * maxfont THEN 1
              ELSE 0
      style == IF BitSet(span.flags, 2) \/ BitSet(span.flags, 8) THEN 1 ELSE 0
      caps == IF istitle(text) \/ isupper(text) THEN 1 ELSE 0
      centre == IF 4 * span.x0 > page_width /\ 4 * span.x1 < 3 * page_width
                THEN 1 ELSE 0
  IN  IF text = << >> \/ word_count(text) > 15 \/ ~isprintable(text)
      THEN 0
      ELSE tier + style + caps + centre

\* get_span_score (main.py 5-32).  The font sizes are integers here and
\* size >= max_font * 0.95 is compared exactly, as 100*size >= 95*max_font.
get_span_score(span, maxfont, page_width) ==
  LET text == strip(span.text)
      tier == IF 100 * span.size >= 95 * maxfont THEN 3
              ELSE IF 100 * span.size >= 75 * maxfont THEN 2
              ELSE IF 100 * span.size >= 60 * maxfont THEN 1
              ELSE 0
      style == IF BitSet(span.flags, 2) \/ BitSet(span.flags, 8) THEN 1 ELSE 0
      caps == IF istitle(text) \/ isupper(text) THEN 1 ELSE 0
      centre == IF 4 * span.x0 > page_width /\ 4 * span.x1 < 3 * page_width
                THEN 1 ELSE 0
  IN  IF text = << >> \/ word_count(text) > 15 \/ ~isprintable(text)
      THEN 0
      ELSE tier + style + caps + centre

\* faulty variant of classify_level: each threshold strict
classify_level_shifted(score) ==
  IF score > 5 THEN "H1"
  ELSE IF score > 3 THEN "H2"
  ELSE IF score > 2 THEN "H3"
  ELSE "None"
\* classify_level (main.py 34-41); "None" stands for Python's None
classify_level(score) ==
  IF score >= 5 THEN "H1"
  ELSE IF score >= 3 THEN "H2"
  ELSE IF score >= 2 THEN "H3"
  ELSE "None"

\* the spans a PDF may hold, on a page 600 wide: the four font-size tiers
\* against a largest font of 10, with and without each bonus (the italic bit
\* 2, the bit 8, title-case or upper-case text, a box inside the middle half
\* of the page), a style bitmask with neither bit (4), the spans
\* get_span_score rejects (blank, non-printable, more than 15 words), and a
\* one-character span in a font larger than any other
Span(t, s, f, a, b) == [text |-> t, size |-> s, flags |-> f, x0 |-> a, x1 |-> b]
Spans ==
  { Span(<<"b","o","d","y"," ","t","e","x","t">>, 5, 0, 50, 300),
    Span(<<"b","o","d","y"," ","t","e","x","t">>, 6, 0, 50, 300),
    Span(<<"b","o","d","y"," ","t","e","x","t">>, 8, 0, 50, 300),
    Span(<<"b","o","d","y"," ","t","e","x","t">>, 10, 0, 50, 300),
    Span(<<"I","n","t","r","o">>, 10, 0, 200, 400),
    Span(<<"I","n","t","r","o">>, 5, 0, 50, 300),
    Span(<<"b","o","d","y"," ","t","e","x","t">>, 5, 2, 200, 400),
    Span(<<"b","o","d","y"," ","t","e","x","t">>, 5, 4, 50, 300),
    Span(<<"b","o","d","y"," ","t","e","x","t">>, 8, 8, 50, 300),
    Span(<<"A","B","C">>, 10, 10, 200, 400),
    Span(<<" ">>, 10, 2, 200, 400),
    Span(<<"A","\n","B">>, 10, 2, 200, 400),
    Span(<<"A"," ","A"," ","A"," ","A"," ","A"," ","A"," ","A"," ","A"," ","A"," ","A"," ","A"," ","A"," ","A"," ","A"," ","A"," ","A">>, 10, 2, 200, 400),
    Span(<<"X">>, 12, 0, 50, 300) }
PageWidth == 600

\* a PDF of at most MaxSpans spans: two pages of spans in reading order (blocks and lines flattened)
SpanSeqs(n) == UNION {[1..k -> Spans] : k \in 0..n}
Pdfs ==
  UNION {{<<Slice(s, 0, k), Slice(s, k, Len(s))>> : k \in 0..Len(s)} :
           s \in SpanSeqs(MaxSpans)}

\* hlast before any span is scored
NoSpan ==
  [scored |-> FALSE,
   span |-> [text |-> << >>, size |-> 0, flags |-> 0, x0 |-> 0, x1 |-> 0],
   score |-> 0, level |-> "None", page |-> 0]
NoOutline == [title |-> << >>, outline |-> << >>]

HInit ==
  /\ hdoc \in Pdfs
  /\ hpc = "title"
  /\ hpage = 1
  /\ hspan = 1
  /\ max_font = 0
  /\ title = << >>
  /\ headings = << >>
  /\ hlast = NoSpan
  /\ hout = NoOutline

\* main.py 49-56: one span of the first page in the search for the largest
\* font; the first span of that size with more than one character names the
\* document
ScanTitleSpan ==
  /\ hpc = "title"
  /\ hspan <= Len(hdoc[1])
  /\ LET span == hdoc[1][hspan]
         text == strip(span.text)
     IN  IF span.size > max_font /\ Len(text) > 1
         THEN max_font' = span.size /\ title' = text
         ELSE UNCHANGED <<max_font, title>>
  /\ hspan' = hspan + 1
  /\ UNCHANGED <<hdoc, hpc, hpage, headings, hlast, hout>>
  /\ UNCHANGED NotH

\* main.py 57-58: the first loop is over, the second starts at page 1
EndTitleScan ==
  /\ hpc = "title"
  /\ hspan > Len(hdoc[1])
  /\ hpc' = "score"
  /\ hpage' = 1
  /\ hspan' = 1
  /\ UNCHANGED <<hdoc, max_font, title, headings, hlast, hout>>
  /\ UNCHANGED NotH

\* main.py 62-70: one span scored and classified; a heading is appended
\* when classify_level returns a level
ScoreSpan ==
  /\ hpc = "score"
  /\ hpage <= Len(hdoc)
  /\ hspan <= Len(hdoc[hpage])
  /\ LET span == hdoc[hpage][hspan]
         score == get_span_score(span, max_font, PageWidth)
         level == classify_level(score)
     IN  /\ headings' =
              IF level # "None"
              THEN Append(headings,
                     [level |-> level, text |-> strip(span.text), page |-> hpage])
              ELSE headings
         /\ hlast' =
              [scored |-> TRUE, span |-> span, score |-> score, level |-> level, page |-> hpage]
  /\ hspan' = hspan + 1
  /\ UNCHANGED <<hdoc, hpc, hpage, max_font, title, hout>>
  /\ UNCHANGED NotH

\* main.py 58-59: the spans of the page are exhausted, on to the next page
NextPage ==
  /\ hpc = "score"
  /\ hpage <= Len(hdoc)
  /\ hspan > Len(hdoc[hpage])
  /\ hpage' = hpage + 1
  /\ hspan' = 1
  /\ UNCHANGED <<hdoc, hpc, max_font, title, headings, hlast, hout>>
  /\ UNCHANGED NotH

\* main.py 72
ReturnOutline ==
  /\ hpc = "score"
  /\ hpage > Len(hdoc)
  /\ hout' = [title |-> title, outline |-> headings]
  /\ hpc' = "done"
  /\ UNCHANGED <<hdoc, hpage, hspan, max_font, title, headings, hlast>>
  /\ UNCHANGED NotH

HNext ==
  \/ ScanTitleSpan
  \/ EndTitleScan
  \/ ScoreSpan
  \/ NextPage
  \/ ReturnOutline

(***************************************************************************)
(* Claims about the heading extractor                                      *)
(***************************************************************************)
\* the scores classify_level is checked on, beyond the 0..6 a span can earn
ScoreMargin == 4
\* the step function of the specification
StepLevel(s) ==
  CASE s >= 5 -> "H1"
    [] s >= 3 /\ s < 5 -> "H2"
    [] s >= 2 /\ s < 3 -> "H3"
    [] s < 2 -> "None"

\* the spans the second loop has passed, in reading order, each with its page
SpansBefore(pg, sp) ==
  LET onPage(p) ==
        LET n == IF p < pg THEN Len(hdoc[p])
                 ELSE IF p = pg THEN sp - 1 ELSE 0
        IN  [i \in 1..n |-> [span |-> hdoc[p][i], page |-> p]]
  IN  onPage(1) \o onPage(2)
SpanLevel(e) == classify_level(get_span_score(e.span, max_font, PageWidth))
HeadingOf(e) ==
  [level |-> SpanLevel(e), text |-> strip(e.span.text), page |-> e.page]
ExpectedHeadings(pg, sp) ==
  LET kept == SelectSeq(SpansBefore(pg, sp), LAMBDA e : SpanLevel(e) # "None")
  IN  [i \in 1..Len(kept) |-> HeadingOf(kept[i])]

\* C8: classify_level is the step function >=5 -> H1, [3,5) -> H2,
\* [2,3) -> H3, <2 -> no level, on every score; and the headings emitted so
\* far are those of exactly the scored spans with a level, in reading order.
C8_ClassifyAndEmit ==
  /\ \A s \in (0 - ScoreMargin)..(6 + ScoreMargin) :
       classify_level(s) = StepLevel(s)
  /\ hlast.scored => hlast.level = StepLevel(hlast.score)
  /\ hpc = "score" /\ hpage <= Len(hdoc) =>
       headings = ExpectedHeadings(hpage, hspan)
  /\ hpc = "done" =>
       /\ headings = ExpectedHeadings(Len(hdoc) + 1, 1)
       /\ hout.outline = headings

\* C8 witness: a finished outline with a heading, from a PDF whose last span
\* earned a score of 1 and therefore no level
C8_Witness ==
  /\ hpc = "done"
  /\ Len(hout.outline) > 0
  /\ hlast.scored /\ hlast.score = 1 /\ hlast.level = "None"

\* a span below 60% of the maximum font size that earns no style,
\* capitalisation or centring bonus
PlainSmall(span) ==
  /\ 100 * span.size < 60 * max_font
  /\ ~BitSet(span.flags, 2) /\ ~BitSet(span.flags, 8)
  /\ ~istitle(strip(span.text)) /\ ~isupper(strip(span.text))
  /\ ~(4 * span.x0 > PageWidth /\ 4 * span.x1 < 3 * PageWidth)

\* C9: the step that scores a span below 60% of the maximum font size with
\* no style, capitalisation or centring bonus scores it 0 and appends no
\* heading.
C9_PlainSmallNeverHeading ==
  [][(/\ hpc = "score"
      /\ hpage <= Len(hdoc)
      /\ hspan <= Len(hdoc[hpage])
      /\ PlainSmall(hdoc[hpage][hspan]))
     => (hlast'.score = 0 /\ headings' = headings)]_vars

\* C9 witness: such a span has just been scored, in a PDF with a heading
C9_Witness ==
  /\ hlast.scored
  /\ PlainSmall(hlast.span)
  /\ hlast.score = 0
  /\ Len(headings) > 0

(***************************************************************************)
(* app.py 169-180: the content window of a section                         *)
(***************************************************************************)
WindowSize == 1000

\* faulty variant of ContentWindow: the window starts after the title
ContentWindowPastTitle(page_content, section_title) ==
  LET section_start == find(page_content, section_title)
  IN  IF section_start # -1
      THEN Slice(page_content, section_start + Len(section_title),
                 section_start + Len(section_title) + WindowSize)
      ELSE Slice(page_content, 0, WindowSize)
\* app.py 173-180: from the first occurrence of the title, or from the start
\* of the page when the title does not occur, at most 1000 characters
ContentWindow(page_content, section_title) ==
  LET section_start == find(page_content, section_title)
  IN  IF section_start # -1
      THEN Slice(page_content, section_start, section_start + WindowSize)
      ELSE Slice(page_content, 0, WindowSize)

\* the page texts of the window model: filler, the title or not, filler, the
\* title again or not, filler; up to 2000 characters
WindowTitles == {<<"I","n","t","r","o">>, <<"x","y">>, << >>}
WindowPages ==
  {Rep("x", a) \o t1 \o Rep("y", b) \o t2 \o Rep("z", c) :
     a \in {0, 1, 300}, b \in {0, 595, 700}, c \in {0, 600, 1000},
     t1 \in {<<"I","n","t","r","o">>, << >>}, t2 \in {<<"I","n","t","r","o">>, << >>}}

WInit ==
  /\ wpage \in WindowPages
  /\ wtitle \in WindowTitles
  /\ wpc = "start"
  /\ wcontent = << >>

\* app.py 173-180 for one section whose page is in text_content
TakeWindow ==
  /\ wpc = "start"
  /\ wcontent' = ContentWindow(wpage, wtitle)
  /\ wpc' = "done"
  /\ UNCHANGED <<wpage, wtitle>>
  /\ UNCHANGED NotW

WNext == TakeWindow

\* C5: when the title first occurs in the page text at offset o the window
\* is the page text from o up to min(o+1000, length); when it does not occur
\* the window is the first min(1000, length) characters; in both cases the
\* window is at most 1000 characters long.
C5_ContentWindow ==
  wpc = "done" =>
    LET n == Len(wpage)
        occurs == \E o \in 0..n : OccursAt(wpage, wtitle, o)
        first == CHOOSE o \in 0..n :
                   /\ OccursAt(wpage, wtitle, o)
                   /\ \A q \in 0..(o - 1) : ~OccursAt(wpage, wtitle, q)
        from == IF occurs THEN first ELSE 0
        to == IF from + 1000 < n THEN from + 1000 ELSE n
    IN  /\ Len(wcontent) = to - from
        /\ \A i \in 1..(to - from) : wcontent[i] = wpage[from + i]
        /\ Len(wcontent) <= 1000

\* C5 witness: both examples of the specification (a title at offset 300 of a
\* page of 1500 characters gives 1000 characters, of a page of 900 gives 600)
\* are windows that were taken, here the clipped one
C5_Witness ==
  /\ wpc = "done"
  /\ wtitle = <<"I","n","t","r","o">>
  /\ find(wpage, wtitle) = 300
  /\ Len(wpage) = 900
  /\ Len(wcontent) = 600

\* the unclipped example: offset 300 of 1500 characters
C5_WitnessFull ==
  /\ wpc = "done"
  /\ wtitle = <<"I","n","t","r","o">>
  /\ find(wpage, wtitle) = 300
  /\ Len(wpage) = 1500
  /\ Len(wcontent) = 1000
  /\ wcontent[1] = "I"

(***************************************************************************)
(* app.py 238-275: parse_input_format                                      *)
(***************************************************************************)
\* the bound of the parse model: the entries of the documents list
MaxEntries == 2

\* the entries a documents list may hold: the two documented shapes, an
\* object without filename, a number
DocEntries ==
  { JObj([filename |-> JStr(<<"a",".","p","d","f">>), title |-> JStr(<<"A">>)]),
    JStr(<<".","/","p","d","f","s","/","b",".","p","d","f">>),
    JObj([title |-> JStr(<<"A">>)]),
    JNum }
DocumentsValues ==
  {JList(q) : q \in UNION {[1..k -> DocEntries] : k \in 0..MaxEntries}}
    \cup {JNum, JStr(<<"a","b">>)}
PersonaValues ==
  { JObj([role |-> JStr(<<"P","h","D"," ","R","e","s","e","a","r","c","h","e","r">>)]),
    JStr(<<"I","n","v","e","s","t","m","e","n","t"," ","A","n","a","l","y","s","t">>),
    JObj([name |-> JStr(<<"S","t","u","d","e","n","t">>)]),
    JNum,
    JList(<<JStr(<<"S","t","u","d","e","n","t">>)>>) }
JobValues ==
  { JObj([task |-> JStr(<<"r","e","v","i","e","w"," ","m","e","t","h","o","d","s">>)]),
    JStr(<<"r","e","v","i","e","w"," ","m","e","t","h","o","d","s">>),
    JObj([goal |-> JStr(<<"r","e","v","i","e","w"," ","m","e","t","h","o","d","s">>)]),
    JNum }
\* the configurations: each field present with one of its values, or absent
Field(k, V) == {[x \in {k} |-> v] : v \in V} \cup {<< >>}
Configs ==
  {JObj(d @@ p @@ j) :
     d \in Field("documents", DocumentsValues),
     p \in Field("persona", PersonaValues),
     j \in Field("job_to_be_done", JobValues)}

PInit ==
  /\ raw \in Configs
  /\ ppc = "documents"
  /\ p_documents = << >>
  /\ p_persona = JStr(<< >>)
  /\ p_job = JStr(<< >>)
  /\ p_error = ""

\* app.py 243-249: one entry of the documents list; an entry of neither
\* shape appends nothing
RECURSIVE DocumentsOf(_)
DocumentsOf(entries) ==
  IF entries = << >> THEN << >>
  ELSE LET doc == Head(entries)
           rest == DocumentsOf(Tail(entries))
       IN  IF HasKey(doc, "filename")
           THEN <<JStr(<<".","/","p","d","f","s","/","1","b","/">> \o doc.obj.filename.str)>> \o rest
           ELSE IF doc.type = "str" THEN <<doc>> \o rest
           ELSE rest

\* what "for doc in input_data['documents']" iterates: the items of a list,
\* the characters of a string
Iterated(v) ==
  IF v.type = "list" THEN v.items
  ELSE [i \in 1..Len(v.str) |-> JStr(<<v.str[i]>>)]

\* app.py 241-249, the documents value iterable
ParseDocuments ==
  /\ ppc = "documents"
  /\ \/ /\ HasKey(raw, "documents")
        /\ raw.obj.documents.type \in {"list", "str"}
        /\ p_documents' = DocumentsOf(Iterated(raw.obj.documents))
     \/ /\ ~HasKey(raw, "documents")
        /\ p_documents' = << >>
  /\ ppc' = "persona"
  /\ UNCHANGED <<raw, p_persona, p_job, p_error>>
  /\ UNCHANGED NotP

\* app.py 243 on a documents value that is a number: the for statement
\* raises TypeError, which leaves parse_input_format
ParseDocumentsRaises ==
  /\ ppc = "documents"
  /\ HasKey(raw, "documents")
  /\ raw.obj.documents.type = "num"
  /\ ppc' = "raised"
  /\ p_error' = "TypeError"
  /\ UNCHANGED <<raw, p_documents, p_persona, p_job>>
  /\ UNCHANGED NotP

\* app.py 252-259 and 262-269: {key: value} gives the value, a string gives
\* itself, anything else (and a missing field) gives the empty string
FieldOf(name, key) ==
  IF ~HasKey(raw, name) THEN JStr(<< >>)
  ELSE LET v == raw.obj[name]
       IN  IF HasKey(v, key) THEN v.obj[key]
           ELSE IF v.type = "str" THEN v
           ELSE JStr(<< >>)

\* app.py 251-259
ParsePersona ==
  /\ ppc = "persona"
  /\ p_persona' = FieldOf("persona", "role")
  /\ ppc' = "job"
  /\ UNCHANGED <<raw, p_documents, p_job, p_error>>
  /\ UNCHANGED NotP

\* app.py 261-269
ParseJob ==
  /\ ppc = "job"
  /\ p_job' = FieldOf("job_to_be_done", "task")
  /\ ppc' = "done"
  /\ UNCHANGED <<raw, p_documents, p_persona, p_error>>
  /\ UNCHANGED NotP

PNext ==
  \/ ParseDocuments
  \/ ParseDocumentsRaises
  \/ ParsePersona
  \/ ParseJob

\* the two documented shapes of each field
DocumentedEntry(e) == HasKey(e, "filename") \/ e.type = "str"
DocumentedDocuments ==
  /\ HasKey(raw, "documents")
  /\ raw.obj.documents.type = "list"
  /\ \A i \in 1..Len(raw.obj.documents.items) :
       DocumentedEntry(raw.obj.documents.items[i])
DocumentedField(name, key) ==
  /\ HasKey(raw, name)
  /\ HasKey(raw.obj[name], key) \/ raw.obj[name].type = "str"
DocumentedShape ==
  /\ DocumentedDocuments
  /\ DocumentedField("persona", "role")
  /\ DocumentedField("job_to_be_done", "task")

\* C3: a configuration of the documented shapes is normalised to
\* {documents, persona, job_to_be_done}, one path per entry; any other
\* shape ends in a ConfigMalformed error, never in a normalised record.
C3_RejectsOtherShapes ==
  ppc \in {"done", "raised"} =>
    IF DocumentedShape
    THEN /\ ppc = "done"
         /\ Len(p_documents) = Len(raw.obj.documents.items)
         /\ p_persona.type = "str"
         /\ p_job.type = "str"
    ELSE ppc = "raised" /\ p_error = "ConfigMalformed"

\* the documented shapes are normalised (the half of C3 the code keeps)
C3_DocumentedNormalised ==
  ppc \in {"done", "raised"} /\ DocumentedShape =>
    /\ ppc = "done"
    /\ Len(p_documents) = Len(raw.obj.documents.items)
    /\ p_persona.type = "str"
    /\ p_job.type = "str"

\* a configuration without persona was parsed to a record whose persona is
\* the empty string
C3_Defaulted ==
  /\ ppc = "done"
  /\ ~HasKey(raw, "persona")
  /\ p_persona = JStr(<< >>)

(***************************************************************************)
(* app.py: PersonaDrivenAnalyzer                                           *)
(***************************************************************************)
\* self.keyword_weights (app.py 11-23)
keyword_weights ==
  "research" :> <<
       <<"m","e","t","h","o","d","o","l","o","g","y">>,
       <<"e","x","p","e","r","i","m","e","n","t">>,
       <<"a","n","a","l","y","s","i","s">>,
       <<"r","e","s","u","l","t","s">>,
       <<"c","o","n","c","l","u","s","i","o","n">>,
       <<"l","i","t","e","r","a","t","u","r","e">>,
       <<"s","t","u","d","y">>,
       <<"f","i","n","d","i","n","g","s">>,
       <<"d","a","t","a">>,
       <<"s","t","a","t","i","s","t","i","c","a","l">>,
       <<"h","y","p","o","t","h","e","s","i","s">>,
       <<"v","a","l","i","d","a","t","i","o","n">>,
       <<"b","e","n","c","h","m","a","r","k","s">>,
       <<"p","e","r","f","o","r","m","a","n","c","e">>,
       <<"e","v","a","l","u","a","t","i","o","n">>,
       <<"m","e","t","r","i","c","s">> >>
  @@ "business" :> <<
       <<"r","e","v","e","n","u","e">>,
       <<"p","r","o","f","i","t">>,
       <<"i","n","v","e","s","t","m","e","n","t">>,
       <<"m","a","r","k","e","t">>,
       <<"s","t","r","a","t","e","g","y">>,
       <<"g","r","o","w","t","h">>,
       <<"f","i","n","a","n","c","i","a","l">>,
       <<"r","o","i">>,
       <<"c","o","m","p","e","t","i","t","i","v","e">>,
       <<"a","n","a","l","y","s","i","s">>,
       <<"t","r","e","n","d","s">>,
       <<"p","o","s","i","t","i","o","n","i","n","g">>,
       <<"r","&","d">>,
       <<"o","p","e","r","a","t","i","o","n","s">>,
       <<"m","a","n","a","g","e","m","e","n","t">> >>
  @@ "education" :> <<
       <<"c","o","n","c","e","p","t">>,
       <<"t","h","e","o","r","y">>,
       <<"p","r","i","n","c","i","p","l","e">>,
       <<"d","e","f","i","n","i","t","i","o","n">>,
       <<"e","x","a","m","p","l","e">>,
       <<"m","e","c","h","a","n","i","s","m">>,
       <<"p","r","o","c","e","s","s">>,
       <<"f","o","r","m","u","l","a">>,
       <<"r","e","a","c","t","i","o","n">>,
       <<"k","i","n","e","t","i","c","s">>,
       <<"p","r","o","p","e","r","t","i","e","s">>,
       <<"s","t","r","u","c","t","u","r","e">>,
       <<"f","u","n","c","t","i","o","n">>,
       <<"a","p","p","l","i","c","a","t","i","o","n">> >>
  @@ "technical" :> <<
       <<"a","l","g","o","r","i","t","h","m">>,
       <<"m","o","d","e","l">>,
       <<"s","y","s","t","e","m">>,
       <<"f","r","a","m","e","w","o","r","k">>,
       <<"a","r","c","h","i","t","e","c","t","u","r","e">>,
       <<"i","m","p","l","e","m","e","n","t","a","t","i","o","n">>,
       <<"o","p","t","i","m","i","z","a","t","i","o","n">>,
       <<"p","a","r","a","m","e","t","e","r","s">>,
       <<"c","o","n","f","i","g","u","r","a","t","i","o","n">>,
       <<"p","e","r","f","o","r","m","a","n","c","e">>,
       <<"s","c","a","l","a","b","i","l","i","t","y">> >>

\* stop_words (app.py 41)
stop_words ==
  { <<"t","h","e">>, <<"a">>, <<"a","n">>, <<"a","n","d">>, <<"o","r">>, <<"b","u","t">>,
    <<"i","n">>, <<"o","n">>, <<"a","t">>, <<"t","o">>, <<"f","o","r">>, <<"o","f">>,
    <<"w","i","t","h">>, <<"b","y">>, <<"i","s">>, <<"a","r","e">>, <<"w","a","s">>, <<"w","e","r","e">>,
    <<"b","e">>, <<"b","e","e","n">>, <<"b","e","i","n","g">>, <<"h","a","v","e">>, <<"h","a","s">>, <<"h","a","d">>,
    <<"d","o">>, <<"d","o","e","s">>, <<"d","i","d">>, <<"w","i","l","l">>, <<"w","o","u","l","d">>, <<"s","h","o","u","l","d">>,
    <<"c","o","u","l","d">>, <<"c","a","n">>, <<"m","a","y">>, <<"m","i","g","h","t">>, <<"m","u","s","t">>, <<"s","h","a","l","l">> }

\* identify_persona_type (app.py 25-36)
identify_persona_type(persona_text) ==
  LET persona_lower == lower(persona_text)
      any(words) == \E w \in words : Contains(persona_lower, w)
  IN  IF any({<<"r","e","s","e","a","r","c","h","e","r">>, <<"p","h","d">>, <<"s","c","i","e","n","t","i","s","t">>, <<"a","c","a","d","e","m","i","c">>})
      THEN "research"
      ELSE IF any({<<"a","n","a","l","y","s","t">>, <<"i","n","v","e","s","t","m","e","n","t">>, <<"b","u","s","i","n","e","s","s">>, <<"f","i","n","a","n","c","i","a","l">>})
      THEN "business"
      ELSE IF any({<<"s","t","u","d","e","n","t">>, <<"u","n","d","e","r","g","r","a","d","u","a","t","e">>, <<"l","e","a","r","n","e","r">>})
      THEN "education"
      ELSE "technical"

\* re.findall(r'\b[a-zA-Z]{3,}\b', s): the maximal runs of letters of length
\* three or more (the texts hold no digit and no underscore, the other
\* characters \b does not break at)
LetterRuns(s) ==
  LET starts == {i \in 1..Len(s) :
                   IsCased(s[i]) /\ (i = 1 \/ ~IsCased(s[i - 1]))}
      endOf(i) == Min({j \in i..Len(s) : j = Len(s) \/ ~IsCased(s[j + 1])})
  IN  {Slice(s, i - 1, endOf(i)) : i \in {k \in starts : endOf(k) - k + 1 >= 3}}

\* re.findall(r'"([^"]*)"', s): the text between the 1st and 2nd quote, the
\* 3rd and 4th, ...
QuotedPhrases(s) ==
  LET q == SortedSeq({i \in 1..Len(s) : s[i] = "\""})
  IN  {Slice(s, q[2 * k - 1], q[2 * k] - 1) : k \in 1..(Len(q) \div 2)}

\* extract_keywords_from_job (app.py 38-51); the returned list(set(...)) is
\* a set here, its order is never read
extract_keywords_from_job(job_description) ==
  LET text == lower(job_description)
      keywords == {w \in LetterRuns(text) : w \notin stop_words}
      quoted == UNION {Range(split_ws(p)) : p \in QuotedPhrases(text)}
  IN  keywords \cup quoted

\* floor(1000 * 0.5 * ln(n)) for n = 51..500, the word counts a window of
\* 1000 characters can hold above 50
HalfLogMilli ==
  <<
     1965, 1975, 1985, 1994, 2003, 2012, 2021, 2030, 2038, 2047, 2055, 2063,
     2071, 2079, 2087, 2094, 2102, 2109, 2117, 2124, 2131, 2138, 2145, 2152,
     2158, 2165, 2171, 2178, 2184, 2191, 2197, 2203, 2209, 2215, 2221, 2227,
     2232, 2238, 2244, 2249, 2255, 2260, 2266, 2271, 2276, 2282, 2287, 2292,
     2297, 2302, 2307, 2312, 2317, 2322, 2326, 2331, 2336, 2341, 2345, 2350,
     2354, 2359, 2363, 2368, 2372, 2376, 2381, 2385, 2389, 2393, 2397, 2402,
     2406, 2410, 2414, 2418, 2422, 2426, 2429, 2433, 2437, 2441, 2445, 2448,
     2452, 2456, 2459, 2463, 2467, 2470, 2474, 2477, 2481, 2484, 2488, 2491,
     2495, 2498, 2501, 2505, 2508, 2511, 2515, 2518, 2521, 2524, 2528, 2531,
     2534, 2537, 2540, 2543, 2546, 2549, 2552, 2555, 2558, 2561, 2564, 2567,
     2570, 2573, 2576, 2579, 2582, 2585, 2588, 2590, 2593, 2596, 2599, 2602,
     2604, 2607, 2610, 2612, 2615, 2618, 2620, 2623, 2626, 2628, 2631, 2633,
     2636, 2639, 2641, 2644, 2646, 2649, 2651, 2654, 2656, 2659, 2661, 2663,
     2666, 2668, 2671, 2673, 2675, 2678, 2680, 2682, 2685, 2687, 2689, 2692,
     2694, 2696, 2699, 2701, 2703, 2705, 2708, 2710, 2712, 2714, 2716, 2719,
     2721, 2723, 2725, 2727, 2729, 2731, 2734, 2736, 2738, 2740, 2742, 2744,
     2746, 2748, 2750, 2752, 2754, 2756, 2758, 2760, 2762, 2764, 2766, 2768,
     2770, 2772, 2774, 2776, 2778, 2780, 2782, 2784, 2786, 2787, 2789, 2791,
     2793, 2795, 2797, 2799, 2801, 2802, 2804, 2806, 2808, 2810, 2812, 2813,
     2815, 2817, 2819, 2820, 2822, 2824, 2826, 2827, 2829, 2831, 2833, 2834,
     2836, 2838, 2840, 2841, 2843, 2845, 2846, 2848, 2850, 2851, 2853, 2855,
     2856, 2858, 2860, 2861, 2863, 2865, 2866, 2868, 2869, 2871, 2873, 2874,
     2876, 2877, 2879, 2881, 2882, 2884, 2885, 2887, 2888, 2890, 2891, 2893,
     2894, 2896, 2898, 2899, 2901, 2902, 2904, 2905, 2907, 2908, 2910, 2911,
     2913, 2914, 2915, 2917, 2918, 2920, 2921, 2923, 2924, 2926, 2927, 2928,
     2930, 2931, 2933, 2934, 2936, 2937, 2938, 2940, 2941, 2943, 2944, 2945,
     2947, 2948, 2949, 2951, 2952, 2954, 2955, 2956, 2958, 2959, 2960, 2962,
     2963, 2964, 2966, 2967, 2968, 2970, 2971, 2972, 2974, 2975, 2976, 2977,
     2979, 2980, 2981, 2983, 2984, 2985, 2986, 2988, 2989, 2990, 2991, 2993,
     2994, 2995, 2996, 2998, 2999, 3000, 3001, 3003, 3004, 3005, 3006, 3008,
     3009, 3010, 3011, 3012, 3014, 3015, 3016, 3017, 3018, 3020, 3021, 3022,
     3023, 3024, 3026, 3027, 3028, 3029, 3030, 3031, 3033, 3034, 3035, 3036,
     3037, 3038, 3039, 3041, 3042, 3043, 3044, 3045, 3046, 3047, 3049, 3050,
     3051, 3052, 3053, 3054, 3055, 3056, 3057, 3059, 3060, 3061, 3062, 3063,
     3064, 3065, 3066, 3067, 3068, 3069, 3071, 3072, 3073, 3074, 3075, 3076,
     3077, 3078, 3079, 3080, 3081, 3082, 3083, 3084, 3085, 3086, 3087, 3088,
     3090, 3091, 3092, 3093, 3094, 3095, 3096, 3097, 3098, 3099, 3100, 3101,
     3102, 3103, 3104, 3105, 3106, 3107 >>

RECURSIVE SumSeq(_)
SumSeq(q) == IF q = << >> THEN 0 ELSE Head(q) + SumSeq(Tail(q))
\* app.py 112-114: 3 for each occurrence of each job keyword
RECURSIVE job_keyword_score(_, _)
job_keyword_score(text_lower, keywords) ==
  IF keywords = {} THEN 0
  ELSE LET k == CHOOSE y \in keywords : TRUE
       IN  3000 * count(text_lower, k)
             + job_keyword_score(text_lower, keywords \ {k})
\* app.py 106-109: 2 for each occurrence of each keyword of the persona type
persona_keyword_score(text_lower, ptype) ==
  LET persona_keywords ==
        IF ptype \in DOMAIN keyword_weights THEN keyword_weights[ptype] ELSE << >>
  IN  SumSeq([i \in 1..Len(persona_keywords) |->
                2000 * count(text_lower, persona_keywords[i])])

\* calculate_relevance_score (app.py 100-121), in thousandths: 2 for each
\* occurrence of a persona keyword, 3 for each occurrence of a job keyword,
\* and 0.5 * ln(word count) above 50 words
calculate_relevance_score(text, ptype, keywords) ==
  LET text_lower == lower(text)
      wc == word_count(text)
  IN  persona_keyword_score(text_lower, ptype)
        + job_keyword_score(text_lower, keywords)
        + (IF wc > 50 THEN HalfLogMilli[wc - 50] ELSE 0)

\* extract_subsections (app.py 123-135) with max_subsections = 5
max_subsections == 5
\* faulty variant of extract_subsections: every paragraph is kept, however
\* short
extract_subsections_unfiltered(content) ==
  LET paragraphs == split_sep(content, <<"\n","\n">>)
      stripped == [i \in 1..Len(paragraphs) |-> strip(paragraphs[i])]
      refined(para) ==
        IF Len(para) > 200 THEN Slice(para, 0, 200) \o <<".",".",".">> ELSE para
      subsections == [i \in 1..Len(stripped) |-> refined(stripped[i])]
  IN  Slice(subsections, 0, max_subsections)
extract_subsections(content) ==
  LET paragraphs == split_sep(content, <<"\n","\n">>)
      stripped == [i \in 1..Len(paragraphs) |-> strip(paragraphs[i])]
      kept == SelectSeq(stripped, LAMBDA para : Len(para) > 100)
      refined(para) ==
        IF Len(para) > 200 THEN Slice(para, 0, 200) \o <<".",".",".">> ELSE para
      subsections == [i \in 1..Len(kept) |-> refined(kept[i])]
  IN  Slice(subsections, 0, max_subsections)

(***************************************************************************)
(* The files process_documents reads                                       *)
(***************************************************************************)
\* os.path.basename
basename(path) ==
  LET slashes == {i \in 1..Len(path) : path[i] = "/"}
  IN  IF slashes = {} THEN path ELSE Slice(path, Max(slashes), Len(path))

\* str.replace(old, new)
RECURSIVE Join(_, _)
Join(pieces, sep) ==
  IF Len(pieces) = 1 THEN pieces[1]
  ELSE pieces[1] \o sep \o Join(Tail(pieces), sep)
replace(s, old, new) == Join(split_sep(s, old), new)

PdfFile(readable, pages) ==
  [kind |-> "pdf", readable |-> readable, pages |-> pages]
JsonFile(parses, value) == [kind |-> "json", parses |-> parses, value |-> value]
JNull == [type |-> "null"]
Heading(level, text, page) ==
  JObj([level |-> JStr(level), text |-> JStr(text), page |-> JInt(page)])
Outline(entries) == JObj([title |-> JStr(<<"T">>), outline |-> JList(entries)])

\* one page of six upper-case headings, each followed by a line of keywords
SixHeadings ==
  <<"O","N","E","\n","d","a","t","a"," ","c","o","n","c","e","p","t","\n","T","W","O","\n","d","a","t","a"," ","c","o","n","c","e","p","t","\n","S","I","X","\n","d","a","t","a"," ","c","o","n","c","e","p","t","\n">>
    \o <<"T","E","N","\n","d","a","t","a"," ","c","o","n","c","e","p","t","\n","E","L","F","\n","d","a","t","a"," ","c","o","n","c","e","p","t","\n","D","U","O","\n","d","a","t","a"," ","c","o","n","c","e","p","t">>
\* one page of six outlined titles
SixTitles ==
  <<"s","1"," ","d","a","t","a"," ","c","o","n","c","e","p","t"," ","s","2"," ","d","a","t","a"," ","c","o","n","c","e","p","t"," ","s","3"," ","d","a","t","a"," ","c","o","n","c","e","p","t"," ">>
    \o <<"s","4"," ","d","a","t","a"," ","c","o","n","c","e","p","t"," ","s","5"," ","d","a","t","a"," ","c","o","n","c","e","p","t"," ","s","6"," ","d","a","t","a"," ","c","o","n","c","e","p","t">>

\* The file system.  a.pdf has no sidecar and one paragraph of more than 100
\* characters; b.pdf has a sidecar outline whose titles are found past the
\* start of the page, not found, and on a page the PDF lacks; corrupt.pdf
\* makes the PDF reader raise; u.pdf has a sidecar that is not JSON, more
\* than 50 words and a paragraph of more than 200 characters; e.pdf has a
\* sidecar with an empty outline and six paragraphs of 101 characters; k.pdf has a sidecar whose outline entry
\* lacks its text; big.pdf and big2.pdf hold six sections each, the first
\* by its lines, the second by its sidecar.  missing.pdf is no file.
Files ==
     <<".","/","p","d","f","s","/","a",".","p","d","f">> :>
       PdfFile(TRUE,
         <<<<"R","E","S","U","L","T","S","\n","T","h","e"," ","s","t","u","d","y"," ","d","a","t","a",".","\n","\n","F","i","n","d","i","n","g","s"," ">> \o Rep("z", 110)>>)
  @@ <<".","/","p","d","f","s","/","b",".","p","d","f">> :>
       PdfFile(TRUE,
         <<<<"x"," ","M","e","t","h","o","d","s",":"," ","d","a","t","a"," ","a","n","a","l","y","s","i","s"," ","o","f"," ","t","h","e"," ","c","o","n","c","e","p","t",".">>,
           <<"M","o","r","e"," ","d","a","t","a"," ","a","n","d"," ","t","h","e","o","r","y",".">>>>)
  @@ <<".","/","p","d","f","s","/","b",".","j","s","o","n">> :>
       JsonFile(TRUE,
         Outline(<<Heading(<<"H","1">>, <<"M","e","t","h","o","d","s">>, 1),
                   Heading(<<"H","2">>, <<"A","b","s","e","n","t"," ","T","i","t","l","e">>, 2),
                   Heading(<<"H","1">>, <<"A","p","p","e","n","d","i","x">>, 3)>>))
  @@ <<".","/","p","d","f","s","/","c","o","r","r","u","p","t",".","p","d","f">> :> PdfFile(FALSE, << >>)
  @@ <<".","/","p","d","f","s","/","u",".","p","d","f">> :>
       PdfFile(TRUE, <<<<"D","a","t","a"," ","S","t","u","d","y","\n">> \o RepText(<<"z","q"," ">>, 70)>>)
  @@ <<".","/","p","d","f","s","/","u",".","j","s","o","n">> :> JsonFile(FALSE, JNull)
  @@ <<".","/","p","d","f","s","/","e",".","p","d","f">> :>
       PdfFile(TRUE,
         <<<<"D","A","T","A","\n","c","o","n","c","e","p","t"," ","d","a","t","a","\n","\n">> \o RepText(Rep("z", 101) \o <<"\n","\n">>, 6)>>)
  @@ <<".","/","p","d","f","s","/","e",".","j","s","o","n">> :> JsonFile(TRUE, Outline(<< >>))
  @@ <<".","/","p","d","f","s","/","k",".","p","d","f">> :> PdfFile(TRUE, <<<<"D","a","t","a","\n","c","o","n","c","e","p","t"," ","d","a","t","a">>>>)
  @@ <<".","/","p","d","f","s","/","k",".","j","s","o","n">> :>
       JsonFile(TRUE,
         Outline(<<JObj([level |-> JStr(<<"H","1">>), page |-> JInt(1)])>>))
  @@ <<".","/","p","d","f","s","/","b","i","g",".","p","d","f">> :> PdfFile(TRUE, <<SixHeadings>>)
  @@ <<".","/","p","d","f","s","/","b","i","g","2",".","p","d","f">> :> PdfFile(TRUE, <<SixTitles>>)
  @@ <<".","/","p","d","f","s","/","b","i","g","2",".","j","s","o","n">> :>
       JsonFile(TRUE,
         Outline(<<Heading(<<"H","1">>, <<"s","1">>, 1), Heading(<<"H","2">>, <<"s","2">>, 1),
                   Heading(<<"H","2">>, <<"s","3">>, 1), Heading(<<"H","1">>, <<"s","4">>, 1),
                   Heading(<<"H","2">>, <<"s","5">>, 1), Heading(<<"H","3">>, <<"s","6">>, 1)>>))

\* the paths a configuration may name
Paths ==
  { <<".","/","p","d","f","s","/","a",".","p","d","f">>, <<".","/","p","d","f","s","/","b",".","p","d","f">>, <<".","/","p","d","f","s","/","m","i","s","s","i","n","g",".","p","d","f">>,
    <<".","/","p","d","f","s","/","c","o","r","r","u","p","t",".","p","d","f">>, <<".","/","p","d","f","s","/","u",".","p","d","f">>, <<".","/","p","d","f","s","/","e",".","p","d","f">>, <<".","/","p","d","f","s","/","k",".","p","d","f">>,
    <<".","/","p","d","f","s","/","b","i","g",".","p","d","f">>, <<".","/","p","d","f","s","/","b","i","g","2",".","p","d","f">> }

\* the persona and the job of a configuration
Requests ==
  { [persona |-> <<"P","h","D"," ","R","e","s","e","a","r","c","h","e","r">>,
     job |-> <<"r","e","v","i","e","w"," ","t","h","e"," ","\"","d","a","t","a"," ","s","e","t","\""," ","m","e","t","h","o","d","s">>],
    [persona |-> <<"S","t","u","d","e","n","t">>, job |-> <<"d","e","f","i","n","e"," ","a"," ","c","o","n","c","e","p","t">>] }

\* os.path.exists
exists(path) == path \in DOMAIN Files

\* extract_text_from_pdf (app.py 53-64): the text of each page by its
\* 1-based number; fitz.open raises on a file it cannot read
CanRead(path) == Files[path].kind = "pdf" /\ Files[path].readable
extract_text_from_pdf(path) == Files[path].pages

\* app.py 157-164: the outline sidecar beside the PDF; None when there is no
\* such file or json.load raises
load_outline(doc_path) ==
  LET json_path == replace(doc_path, <<".","p","d","f">>, <<".","j","s","o","n">>)
  IN  IF exists(json_path) /\ Files[json_path].kind = "json"
         /\ Files[json_path].parses
      THEN Files[json_path].value
      ELSE JNull

(***************************************************************************)
(* app.py 66-98: identify_sections                                         *)
(***************************************************************************)
Section(section_title, page, level) ==
  [title |-> section_title, page |-> page, level |-> level, content |-> << >>]

\* app.py 87-90: the line (already stripped) reads as a section header
IsHeaderLine(line) ==
  /\ Len(line) > 0
  /\ Len(line) < 100
  /\ isupper(line) \/ istitle(line)
  /\ ~endswith(line, <<".">>)
  /\ word_count(line) <= 10

\* app.py 82-96 for one page: a section for each line that reads as a header
InferredOnPage(page_num, content) ==
  LET lines == split_sep(content, <<"\n">>)
      stripped == [i \in 1..Len(lines) |-> strip(lines[i])]
      headers == SelectSeq(stripped, IsHeaderLine)
  IN  [i \in 1..Len(headers) |-> Section(headers[i], page_num, <<"H","1">>)]

\* app.py 81-96: the fallback, over the pages in their order
RECURSIVE InferredFrom(_, _)
InferredFrom(text_content, page_num) ==
  IF page_num > Len(text_content) THEN << >>
  ELSE InferredOnPage(page_num, text_content[page_num])
         \o InferredFrom(text_content, page_num + 1)
InferredSections(text_content) == InferredFrom(text_content, 1)

\* app.py 71: outline_data and 'outline' in outline_data.  The sidecars of
\* the model are JSON objects; None and the empty object are false.
HasOutline(outline_data) ==
  /\ outline_data.type = "obj"
  /\ DOMAIN outline_data.obj # {}
  /\ "outline" \in DOMAIN outline_data.obj

\* app.py 72-78: heading['text'], heading['page'] and heading['level'] raise
\* KeyError on an entry that lacks the key
WellFormedEntry(heading) ==
  {"text", "page", "level"} \subseteq DOMAIN heading.obj
SeededSections(outline_data) ==
  LET entries == outline_data.obj.outline.items
  IN  [i \in 1..Len(entries) |->
         Section(entries[i].obj.text.str, entries[i].obj.page.num,
                 entries[i].obj.level.str)]

\* identify_sections (app.py 66-98): the sections, or the exception raised
identify_sections(text_content, outline_data) ==
  IF HasOutline(outline_data)
     /\ \E i \in 1..Len(outline_data.obj.outline.items) :
          ~WellFormedEntry(outline_data.obj.outline.items[i])
  THEN [raised |-> "KeyError", sections |-> << >>]
  ELSE LET seeded == IF HasOutline(outline_data)
                     THEN SeededSections(outline_data) ELSE << >>
       IN  [raised |-> "",
            sections |-> IF seeded # << >> THEN seeded
                         ELSE InferredSections(text_content)]

(***************************************************************************)
(* app.py 137-231: process_documents                                       *)
(***************************************************************************)
\* the bound of the model: the documents of one configuration
MaxDocs == 2
\* app.py 202: the sections kept
TopSections == 10

\* app.py 169-193 for the sections of one document: each section whose page
\* the PDF has, with its content window and its relevance score
RECURSIVE ScoreSections(_, _, _, _, _)
ScoreSections(secs, text_content, doc_name, ptype, keywords) ==
  IF secs = << >> THEN << >>
  ELSE LET section == Head(secs)
           rest == ScoreSections(Tail(secs), text_content, doc_name, ptype,
                                 keywords)
       IN  IF section.page \in DOMAIN text_content
           THEN LET section_content ==
                      ContentWindow(text_content[section.page], section.title)
                IN  << [document |-> doc_name,
                        page_number |-> section.page,
                        section_title |-> section.title,
                        relevance_score |->
                          calculate_relevance_score(section_content, ptype,
                                                    keywords),
                        content |-> section_content] >> \o rest
           ELSE rest

\* app.py 186: only the sections of positive score are kept
Relevant(secs) == SelectSeq(secs, LAMBDA s : s.relevance_score > 0)

\* app.py 196: list.sort(key=relevance_score, reverse=True), a stable sort:
\* sections of equal score keep the order they were appended in
\* faulty variant of InsertByScore: the section goes to the end whatever its
\* score, which leaves the list in the order the documents were read
InsertByScore_at_end(sorted, s) == Append(sorted, s)
RECURSIVE InsertByScore(_, _)
InsertByScore(sorted, s) ==
  IF sorted = << >> THEN <<s>>
  ELSE IF Head(sorted).relevance_score >= s.relevance_score
       THEN <<Head(sorted)>> \o InsertByScore(Tail(sorted), s)
       ELSE <<s>> \o sorted
RECURSIVE SortByRelevance(_)
SortByRelevance(secs) ==
  IF secs = << >> THEN << >>
  ELSE InsertByScore(SortByRelevance(Slice(secs, 0, Len(secs) - 1)),
                     secs[Len(secs)])

\* faulty variant of ExtractedOf: enumerate without its start of 1
ExtractedOf_from_zero(top) ==
  [rank \in 1..Len(top) |->
     [document |-> top[rank].document,
      section_title |-> top[rank].section_title,
      importance_rank |-> rank - 1,
      page_number |-> top[rank].page_number]]
\* app.py 202-208
ExtractedOf(top) ==
  [rank \in 1..Len(top) |->
     [document |-> top[rank].document,
      section_title |-> top[rank].section_title,
      importance_rank |-> rank,
      page_number |-> top[rank].page_number]]

\* faulty variant of SubsectionsOf: the 0-based page index for the page
SubsectionsOf_zero_based_page(section) ==
  LET subsections == extract_subsections(section.content)
  IN  [i \in 1..Len(subsections) |->
         [document |-> section.document,
          refined_text |-> subsections[i],
          page_number |-> section.page_number - 1]]
\* app.py 211-217 for one section
SubsectionsOf(section) ==
  LET subsections == extract_subsections(section.content)
  IN  [i \in 1..Len(subsections) |->
         [document |-> section.document,
          refined_text |-> subsections[i],
          page_number |-> section.page_number]]
\* app.py 202-217: the subsections of the kept sections, in rank order
RECURSIVE SubsectionAnalysisOf(_)
SubsectionAnalysisOf(top) ==
  IF top = << >> THEN << >>
  ELSE SubsectionsOf(Head(top)) \o SubsectionAnalysisOf(Tail(top))

\* app.py 220
InputDocumentNames(docs) ==
  LET present == SelectSeq(docs, exists)
  IN  [i \in 1..Len(present) |-> basename(present[i])]

\* the lists of distinct paths of at most MaxDocs documents
DocumentLists ==
  {q \in UNION {[1..k -> Paths] : k \in 0..MaxDocs} :
     \A i, j \in 1..Len(q) : i # j => q[i] # q[j]}
\* the same documents in every list order
Orders(docs) ==
  {[i \in 1..Len(docs) |-> docs[f[i]]] :
     f \in {g \in [1..Len(docs) -> 1..Len(docs)] :
              \A i, j \in 1..Len(docs) : i # j => g[i] # g[j]}}

\* what a run leaves behind: the returned result, or the exception
Outcome ==
  [over |-> pc \in {"done", "raised"},
   raised |-> error,
   extracted_sections |-> extracted_sections,
   ranked_scores |->
     [i \in 1..Len(extracted_sections) |-> all_sections[i].relevance_score],
   subsection_analysis |-> subsection_analysis,
   input_document_names |-> input_document_names]
NoOutcome ==
  [over |-> FALSE, raised |-> "", extracted_sections |-> << >>,
   ranked_scores |-> << >>,
   subsection_analysis |-> << >>, input_document_names |-> << >>]

DInit ==
  /\ documents \in DocumentLists
  /\ \E r \in Requests : persona = r.persona /\ job_to_be_done = r.job
  /\ pc = "start"
  /\ run = 1
  /\ persona_type = ""
  /\ job_keywords = {}
  /\ doc_idx = 1
  /\ sections = << >>
  /\ sections_of = << >>
  /\ scored = << >>
  /\ all_sections = << >>
  /\ extracted_sections = << >>
  /\ subsection_analysis = << >>
  /\ input_document_names = << >>
  /\ error = ""
  /\ first_run = NoOutcome

\* app.py 139-146
Start ==
  /\ pc = "start"
  /\ persona_type' = identify_persona_type(persona)
  /\ job_keywords' = extract_keywords_from_job(job_to_be_done)
  /\ all_sections' = << >>
  /\ doc_idx' = 1
  /\ pc' = "loop"
  /\ UNCHANGED <<documents, persona, job_to_be_done, run, sections, sections_of, scored,
                 extracted_sections, subsection_analysis,
                 input_document_names, error, first_run>>
  /\ UNCHANGED NotD

\* app.py 150-151: a path that does not exist is passed over
SkipMissing ==
  /\ pc = "loop"
  /\ doc_idx <= Len(documents)
  /\ ~exists(documents[doc_idx])
  /\ doc_idx' = doc_idx + 1
  /\ UNCHANGED <<documents, persona, job_to_be_done, pc, run, persona_type,
                 job_keywords, sections, sections_of, scored, all_sections,
                 extracted_sections, subsection_analysis,
                 input_document_names, error, first_run>>
  /\ UNCHANGED NotD

\* app.py 154: fitz.open raises inside extract_text_from_pdf; nothing
\* catches it before it leaves process_documents
ReadRaises ==
  /\ pc = "loop"
  /\ doc_idx <= Len(documents)
  /\ exists(documents[doc_idx])
  /\ ~CanRead(documents[doc_idx])
  /\ pc' = "raised"
  /\ error' = "FileDataError"
  /\ UNCHANGED <<documents, persona, job_to_be_done, run, persona_type,
                 job_keywords, doc_idx, sections, sections_of, scored, all_sections,
                 extracted_sections, subsection_analysis,
                 input_document_names, first_run>>
  /\ UNCHANGED NotD

\* app.py 154-166: identify_sections raises on the sidecar outline; nothing
\* catches it before it leaves process_documents
SectionsRaise ==
  /\ pc = "loop"
  /\ doc_idx <= Len(documents)
  /\ exists(documents[doc_idx])
  /\ CanRead(documents[doc_idx])
  /\ LET doc_path == documents[doc_idx]
         found == identify_sections(extract_text_from_pdf(doc_path),
                                    load_outline(doc_path))
     IN  /\ found.raised # ""
         /\ error' = found.raised
  /\ pc' = "raised"
  /\ UNCHANGED <<documents, persona, job_to_be_done, run, persona_type,
                 job_keywords, doc_idx, sections, sections_of, scored, all_sections,
                 extracted_sections, subsection_analysis,
                 input_document_names, first_run>>
  /\ UNCHANGED NotD

\* app.py 153-193: the document is read, its sections are identified and
\* scored, and those of positive score are appended to all_sections
ScoreDocument ==
  /\ pc = "loop"
  /\ doc_idx <= Len(documents)
  /\ exists(documents[doc_idx])
  /\ CanRead(documents[doc_idx])
  /\ LET doc_path == documents[doc_idx]
         doc_name == basename(doc_path)
         text_content == extract_text_from_pdf(doc_path)
         found == identify_sections(text_content, load_outline(doc_path))
         with_scores == ScoreSections(found.sections, text_content, doc_name,
                                      persona_type, job_keywords)
     IN  /\ found.raised = ""
         /\ sections' = found.sections
         /\ sections_of' = doc_path
         /\ scored' = scored \o with_scores
         /\ all_sections' = all_sections \o Relevant(with_scores)
  /\ doc_idx' = doc_idx + 1
  /\ UNCHANGED <<documents, persona, job_to_be_done, pc, run, persona_type,
                 job_keywords, extracted_sections, subsection_analysis,
                 input_document_names, error, first_run>>
  /\ UNCHANGED NotD

\* app.py 195-231: the sections are sorted by descending score, the first
\* ten are ranked from 1 and refined, and the result is returned.  The
\* metadata's persona, job and timestamp are no part of the model's result.
Finish ==
  /\ pc = "loop"
  /\ doc_idx > Len(documents)
  /\ LET sorted == SortByRelevance(all_sections)
         top == Slice(sorted, 0, TopSections)
     IN  /\ all_sections' = sorted
         /\ extracted_sections' = ExtractedOf(top)
         /\ subsection_analysis' = SubsectionAnalysisOf(top)
  /\ input_document_names' = InputDocumentNames(documents)
  /\ pc' = "done"
  /\ UNCHANGED <<documents, persona, job_to_be_done, run, persona_type,
                 job_keywords, doc_idx, sections, sections_of, scored, error, first_run>>
  /\ UNCHANGED NotD

\* a second run of process_documents, over the same documents, persona and
\* job, the documents listed in another order
Rerun ==
  /\ pc \in {"done", "raised"}
  /\ run = 1
  /\ \E order \in Orders(documents) \ {documents} : documents' = order
  /\ first_run' = Outcome
  /\ run' = 2
  /\ pc' = "start"
  /\ persona_type' = ""
  /\ job_keywords' = {}
  /\ doc_idx' = 1
  /\ sections' = << >>
  /\ sections_of' = << >>
  /\ scored' = << >>
  /\ all_sections' = << >>
  /\ extracted_sections' = << >>
  /\ subsection_analysis' = << >>
  /\ input_document_names' = << >>
  /\ error' = ""
  /\ UNCHANGED <<persona, job_to_be_done>>
  /\ UNCHANGED NotD

DNext ==
  \/ Start
  \/ SkipMissing
  \/ ReadRaises
  \/ SectionsRaise
  \/ ScoreDocument
  \/ Finish
  \/ Rerun

(***************************************************************************)
(* Claims about process_documents                                          *)
(***************************************************************************)
\* the candidate sections of positive score, among all those scored
PositiveScored == Relevant(scored)
MinOf(a, b) == IF a < b THEN a ELSE b

\* C1: in every result, the importance_rank values of extracted_sections,
\* in list order, are exactly 1, 2, ..., min(10, number of candidate
\* sections of score > 0), and the relevance score never rises from one
\* rank to the next.
C1_RanksDenseScoresSorted ==
  pc = "done" =>
    LET n == Len(extracted_sections)
    IN  /\ n = MinOf(10, Len(PositiveScored))
        /\ \A i \in 1..n :
             /\ extracted_sections[i].importance_rank = i
             /\ extracted_sections[i].document = all_sections[i].document
             /\ extracted_sections[i].section_title =
                  all_sections[i].section_title
             /\ extracted_sections[i].page_number = all_sections[i].page_number
        /\ \A i \in 1..(n - 1) :
             all_sections[i + 1].relevance_score
               <= all_sections[i].relevance_score
        /\ \A i \in 1..Len(PositiveScored) :
             \E j \in 1..Len(all_sections) : all_sections[j] = PositiveScored[i]

\* C1 witness: more than ten candidates of positive score, ten ranked, the
\* scores falling strictly somewhere and tied somewhere
C1_Witness ==
  /\ pc = "done"
  /\ Len(PositiveScored) > 10
  /\ Len(extracted_sections) = 10
  /\ extracted_sections[10].importance_rank = 10
  /\ all_sections[1].relevance_score > all_sections[10].relevance_score
  /\ \E i \in 1..9 :
       all_sections[i].relevance_score = all_sections[i + 1].relevance_score

\* C2: a failure confined to one document (no such path, the PDF reader
\* raising, a malformed outline sidecar) skips that document only: no
\* exception leaves process_documents, and the run ends with a result.
C2_FailureIsolated ==
  /\ pc # "raised"
  /\ error = ""

\* the paragraphs of a content window that extract_subsections refines:
\* those longer than 100 characters once stripped
LongParagraphs(content) ==
  LET paragraphs == split_sep(content, <<"\n","\n">>)
  IN  Cardinality({k \in 1..Len(paragraphs) : Len(strip(paragraphs[k])) > 100})

\* C4: in every result, each section listed in extracted_sections has at
\* least one refined excerpt in subsection_analysis, carrying its document
\* and page_number.
C4_EverySectionRefined ==
  pc = "done" =>
    \A i \in 1..Len(extracted_sections) :
      \E j \in 1..Len(subsection_analysis) :
        /\ subsection_analysis[j].document = extracted_sections[i].document
        /\ subsection_analysis[j].page_number =
             extracted_sections[i].page_number

\* the entries of subsection_analysis from position j on are, section by
\* section from rank i on, one entry for each paragraph of the section's
\* content window longer than 100 characters, five at most, each with the
\* section's document and page and a text of 101 to 203 characters
RECURSIVE RefinedBySection(_, _)
RefinedBySection(i, j) ==
  IF i > Len(extracted_sections) THEN j = Len(subsection_analysis) + 1
  ELSE LET k == MinOf(5, LongParagraphs(all_sections[i].content))
       IN  /\ j + k - 1 <= Len(subsection_analysis)
           /\ \A t \in j..(j + k - 1) :
                /\ subsection_analysis[t].document =
                     extracted_sections[i].document
                /\ subsection_analysis[t].page_number =
                     extracted_sections[i].page_number
                /\ Len(subsection_analysis[t].refined_text) > 100
                /\ Len(subsection_analysis[t].refined_text) <= 203
           /\ RefinedBySection(i + 1, j + k)

\* C4 as amended: in every result, each section listed in extracted_sections
\* has between zero and five refined excerpts in subsection_analysis, one
\* for each paragraph of its content window longer than 100 characters (five
\* at most), each carrying its document and page_number; a section whose
\* window holds no such paragraph has none.
C4_RefinedUpToFive == pc = "done" => RefinedBySection(1, 1)

\* C4 witness: a result with a section that has no excerpt and one with
\* more than five long paragraphs, of which five are excerpted
C4_Witness ==
  /\ pc = "done"
  /\ \E i \in 1..Len(extracted_sections) :
       LongParagraphs(all_sections[i].content) = 0
  /\ \E i \in 1..Len(extracted_sections) :
       LongParagraphs(all_sections[i].content) > 5
  /\ Len(subsection_analysis) = 5

\* the sidecar of a document: whether the file is there and parses, and
\* whether what it parses to is an outline of complete entries
SidecarParses(doc_path) == load_outline(doc_path) # JNull
SidecarWellFormed(doc_path) ==
  LET outline_data == load_outline(doc_path)
  IN  /\ HasKey(outline_data, "outline")
      /\ outline_data.obj.outline.type = "list"
      /\ \A i \in 1..Len(outline_data.obj.outline.items) :
           WellFormedEntry(outline_data.obj.outline.items[i])

\* C6: when the sidecar is there and parses, the candidate sections are one
\* per outline entry, with no line-heuristic heading added; when it is
\* absent, unparsable or malformed, it is silently ignored and the sections
\* are those of the line scan, and no error is raised.
C6_StrategyBySidecar ==
  /\ error # "KeyError"
  /\ sections_of # << >> =>
       IF SidecarParses(sections_of) /\ SidecarWellFormed(sections_of)
       THEN sections = SeededSections(load_outline(sections_of))
       ELSE sections = InferredSections(extract_text_from_pdf(sections_of))

\* no two scored sections of different documents have the same positive
\* relevance score
NoTieAcrossDocuments ==
  \A i, j \in 1..Len(PositiveScored) :
    PositiveScored[i].document # PositiveScored[j].document
      => PositiveScored[i].relevance_score # PositiveScored[j].relevance_score

\* both runs returned a result
BothReturned == run = 2 /\ pc = "done" /\ first_run.over /\ first_run.raised = ""

\* C7: two runs of process_documents over the same documents, persona and
\* job, the documents listed in different orders, give the same sequence of
\* (document, section_title, page_number, importance_rank) entries.
C7_OrderIndependent ==
  BothReturned => extracted_sections = first_run.extracted_sections

\* C7 as amended: the two runs give the same sequence of relevance scores by
\* rank, and the same sequence of entries whenever no two candidate sections
\* of different documents have equal scores; sections of equal score appear
\* in the order their documents were listed.
C7_OrderIndependentUpToTies ==
  BothReturned =>
    /\ Outcome.ranked_scores = first_run.ranked_scores
    /\ NoTieAcrossDocuments =>
         extracted_sections = first_run.extracted_sections
    /\ \A i, j \in 1..Len(extracted_sections) :
         /\ i < j
         /\ all_sections[i].relevance_score = all_sections[j].relevance_score
         /\ all_sections[i].document # all_sections[j].document
         => \E a, b \in 1..Len(documents) :
              /\ a < b
              /\ basename(documents[a]) = all_sections[i].document
              /\ basename(documents[b]) = all_sections[j].document

\* C7 witness: both orders returned the same ranking of sections of two
\* documents whose scores do not tie
C7_Witness ==
  /\ BothReturned
  /\ NoTieAcrossDocuments
  /\ Len(extracted_sections) >= 3
  /\ \E i \in 1..Len(extracted_sections) :
       extracted_sections[i].document # extracted_sections[1].document
  /\ extracted_sections = first_run.extracted_sections

\* each entry of subsection_analysis from position j on carries the document
\* and page of a section of rank r or later, the ranks never falling
RECURSIVE GroupedByRank(_, _)
GroupedByRank(j, r) ==
  IF j > Len(subsection_analysis) THEN TRUE
  ELSE LET later == {q \in r..Len(extracted_sections) :
                       /\ extracted_sections[q].document =
                            subsection_analysis[j].document
                       /\ extracted_sections[q].page_number =
                            subsection_analysis[j].page_number}
       IN  later # {} /\ GroupedByRank(j + 1, Min(later))

\* C10: in every result, each document named in extracted_sections or
\* subsection_analysis is in metadata.input_documents, and the entries of
\* subsection_analysis carry the (document, page_number) of entries of
\* extracted_sections, grouped in ascending importance_rank.
C10_ReferentialIntegrity ==
  pc = "done" =>
    /\ \A i \in 1..Len(extracted_sections) :
         extracted_sections[i].document \in Range(input_document_names)
    /\ \A j \in 1..Len(subsection_analysis) :
         subsection_analysis[j].document \in Range(input_document_names)
    /\ GroupedByRank(1, 1)

\* C10 witness: a result over two documents, with excerpts of sections of
\* both
C10_Witness ==
  /\ pc = "done"
  /\ Len(input_document_names) = 2
  /\ Len(subsection_analysis) >= 2
  /\ \E j \in 1..Len(subsection_analysis) :
       subsection_analysis[j].document # subsection_analysis[1].document

(***************************************************************************)
(* The specifications.  Each runs one machine; the other three stay idle.  *)
(***************************************************************************)
HIdle ==
  /\ hdoc = << << >>, << >> >>
  /\ hpc = "idle"
  /\ hpage = 1
  /\ hspan = 1
  /\ max_font = 0
  /\ title = << >>
  /\ headings = << >>
  /\ hlast = NoSpan
  /\ hout = NoOutline
WIdle ==
  /\ wpage = << >>
  /\ wtitle = << >>
  /\ wpc = "idle"
  /\ wcontent = << >>
PIdle ==
  /\ raw = JObj(<< >>)
  /\ ppc = "idle"
  /\ p_documents = << >>
  /\ p_persona = JStr(<< >>)
  /\ p_job = JStr(<< >>)
  /\ p_error = ""
DIdle ==
  /\ documents = << >>
  /\ persona = << >>
  /\ job_to_be_done = << >>
  /\ pc = "idle"
  /\ run = 1
  /\ persona_type = ""
  /\ job_keywords = {}
  /\ doc_idx = 1
  /\ sections = << >>
  /\ sections_of = << >>
  /\ scored = << >>
  /\ all_sections = << >>
  /\ extracted_sections = << >>
  /\ subsection_analysis = << >>
  /\ input_document_names = << >>
  /\ error = ""
  /\ first_run = NoOutcome

Init == DInit /\ HIdle /\ WIdle /\ PIdle
Next == DNext
Spec == Init /\ [][Next]_vars

InitHeadings == HInit /\ WIdle /\ PIdle /\ DIdle
SpecHeadings == InitHeadings /\ [][HNext]_vars

InitWindow == WInit /\ HIdle /\ PIdle /\ DIdle
SpecWindow == InitWindow /\ [][WNext]_vars

InitParse == PInit /\ HIdle /\ WIdle /\ DIdle
SpecParse == InitParse /\ [][PNext]_vars

=============================================================================
